---- MODULE Spec2Model ----
(***************************************************************************)
(* Model of newday.py: DoctoraliaPhoneExtractor.                           *)
(*   clean_phone         the phone normalizer (pure function)              *)
(*   extract_phones      the per-page extractor (one step per container)   *)
(*   process_excel_file  the row processor (one step per row)              *)
(* Texts are sequences of one-character strings; the browser, the page and *)
(* the spreadsheet file are the environment, drawn from small sets.        *)
(***************************************************************************)
EXTENDS Integers, Sequences, FiniteSets, TLC

VARIABLES
    \* clean_phone
    text, cleaned, pcC,
    \* extract_phones
    page,               \* what the browser shows for profile_url
    pcE,                \* position in extract_phones
    extracted_phones,   \* the accumulator (line 90)
    container_index,    \* 1-based position in phone_containers
    result,             \* the returned list
    inspected,          \* log: <<container, numbers held when it was inspected>>
    clicks,             \* log: containers whose show-phone control was clicked
    normalized,         \* log: <<container, text>> handed to clean_phone
    accepted,           \* log: <<container, number>> appended to the accumulator
    \* process_excel_file
    pcR,                \* position in process_excel_file
    start_row, max_rows,\* the arguments (max_rows = 0 stands for None)
    df,                 \* the in-memory dataset: row -> [Phone1, Phone2]
    disk,               \* the dataset as the file holds it
    index,              \* the loop variable (0-based row)
    processed_count,    \* line 286
    driver,             \* self.driver: "none", "live" or "quit"
    sessions,           \* browsers created by this run
    outcome,            \* "running", "returned" or "raised"
    last,               \* log: what happened to the row handled last
    counted,            \* log: rows counted since the last periodic to_excel call
    periodic,           \* log: rows counted when the last periodic call was made
    unsaved,            \* log: rows handled without failure since the last completed write
    finalWrite,         \* log: the final to_excel call: "none", "ok" or "failed"
    lateWrites,         \* log: to_excel calls made after a failure escaped
    oddRows, saveFailures

cleanVars == <<text, cleaned, pcC>>
extractVars == <<page, pcE, extracted_phones, container_index, result,
                 inspected, clicks, normalized, accepted>>
runVars == <<pcR, start_row, max_rows, df, disk, index, processed_count, driver,
             sessions, outcome, last, counted, periodic, unsaved, finalWrite,
             lateWrites, oddRows, saveFailures>>
vars == <<cleanVars, extractVars, runVars>>

----------------------------------------------------------------------------
(* Characters and text helpers                                             *)

\* Longest text the normalizer is applied to in SpecClean.
MaxTextLen == 11

\* Python's None.
None == <<"None">>

\* A character outside ASCII is written "U+" and its code point in
\* hexadecimal; tab, newline, form feed and carriage return are written
\* "\t", "\n", "\f" and "\r".

AsciiDigits == {"0", "1", "2", "3", "4", "5", "6", "7", "8", "9"}

\* The decimal digits outside ASCII (Unicode category Nd).
UnicodeDigits == {
    "U+0660", "U+0661", "U+0662", "U+0663", "U+0664", "U+0665", "U+0666",
    "U+0667", "U+0668", "U+0669", "U+06F0", "U+06F1", "U+06F2", "U+06F3",
    "U+06F4", "U+06F5", "U+06F6", "U+06F7", "U+06F8", "U+06F9", "U+07C0",
    "U+07C1", "U+07C2", "U+07C3", "U+07C4", "U+07C5", "U+07C6", "U+07C7",
    "U+07C8", "U+07C9", "U+0966", "U+0967", "U+0968", "U+0969", "U+096A",
    "U+096B", "U+096C", "U+096D", "U+096E", "U+096F", "U+09E6", "U+09E7",
    "U+09E8", "U+09E9", "U+09EA", "U+09EB", "U+09EC", "U+09ED", "U+09EE",
    "U+09EF", "U+0A66", "U+0A67", "U+0A68", "U+0A69", "U+0A6A", "U+0A6B",
    "U+0A6C", "U+0A6D", "U+0A6E", "U+0A6F", "U+0AE6", "U+0AE7", "U+0AE8",
    "U+0AE9", "U+0AEA", "U+0AEB", "U+0AEC", "U+0AED", "U+0AEE", "U+0AEF",
    "U+0B66", "U+0B67", "U+0B68", "U+0B69", "U+0B6A", "U+0B6B", "U+0B6C",
    "U+0B6D", "U+0B6E", "U+0B6F", "U+0BE6", "U+0BE7", "U+0BE8", "U+0BE9",
    "U+0BEA", "U+0BEB", "U+0BEC", "U+0BED", "U+0BEE", "U+0BEF", "U+0C66",
    "U+0C67", "U+0C68", "U+0C69", "U+0C6A", "U+0C6B", "U+0C6C", "U+0C6D",
    "U+0C6E", "U+0C6F", "U+0CE6", "U+0CE7", "U+0CE8", "U+0CE9", "U+0CEA",
    "U+0CEB", "U+0CEC", "U+0CED", "U+0CEE", "U+0CEF", "U+0D66", "U+0D67",
    "U+0D68", "U+0D69", "U+0D6A", "U+0D6B", "U+0D6C", "U+0D6D", "U+0D6E",
    "U+0D6F", "U+0DE6", "U+0DE7", "U+0DE8", "U+0DE9", "U+0DEA", "U+0DEB",
    "U+0DEC", "U+0DED", "U+0DEE", "U+0DEF", "U+0E50", "U+0E51", "U+0E52",
    "U+0E53", "U+0E54", "U+0E55", "U+0E56", "U+0E57", "U+0E58", "U+0E59",
    "U+0ED0", "U+0ED1", "U+0ED2", "U+0ED3", "U+0ED4", "U+0ED5", "U+0ED6",
    "U+0ED7", "U+0ED8", "U+0ED9", "U+0F20", "U+0F21", "U+0F22", "U+0F23",
    "U+0F24", "U+0F25", "U+0F26", "U+0F27", "U+0F28", "U+0F29", "U+1040",
    "U+1041", "U+1042", "U+1043", "U+1044", "U+1045", "U+1046", "U+1047",
    "U+1048", "U+1049", "U+1090", "U+1091", "U+1092", "U+1093", "U+1094",
    "U+1095", "U+1096", "U+1097", "U+1098", "U+1099", "U+17E0", "U+17E1",
    "U+17E2", "U+17E3", "U+17E4", "U+17E5", "U+17E6", "U+17E7", "U+17E8",
    "U+17E9", "U+1810", "U+1811", "U+1812", "U+1813", "U+1814", "U+1815",
    "U+1816", "U+1817", "U+1818", "U+1819", "U+1946", "U+1947", "U+1948",
    "U+1949", "U+194A", "U+194B", "U+194C", "U+194D", "U+194E", "U+194F",
    "U+19D0", "U+19D1", "U+19D2", "U+19D3", "U+19D4", "U+19D5", "U+19D6",
    "U+19D7", "U+19D8", "U+19D9", "U+1A80", "U+1A81", "U+1A82", "U+1A83",
    "U+1A84", "U+1A85", "U+1A86", "U+1A87", "U+1A88", "U+1A89", "U+1A90",
    "U+1A91", "U+1A92", "U+1A93", "U+1A94", "U+1A95", "U+1A96", "U+1A97",
    "U+1A98", "U+1A99", "U+1B50", "U+1B51", "U+1B52", "U+1B53", "U+1B54",
    "U+1B55", "U+1B56", "U+1B57", "U+1B58", "U+1B59", "U+1BB0", "U+1BB1",
    "U+1BB2", "U+1BB3", "U+1BB4", "U+1BB5", "U+1BB6", "U+1BB7", "U+1BB8",
    "U+1BB9", "U+1C40", "U+1C41", "U+1C42", "U+1C43", "U+1C44", "U+1C45",
    "U+1C46", "U+1C47", "U+1C48", "U+1C49", "U+1C50", "U+1C51", "U+1C52",
    "U+1C53", "U+1C54", "U+1C55", "U+1C56", "U+1C57", "U+1C58", "U+1C59",
    "U+A620", "U+A621", "U+A622", "U+A623", "U+A624", "U+A625", "U+A626",
    "U+A627", "U+A628", "U+A629", "U+A8D0", "U+A8D1", "U+A8D2", "U+A8D3",
    "U+A8D4", "U+A8D5", "U+A8D6", "U+A8D7", "U+A8D8", "U+A8D9", "U+A900",
    "U+A901", "U+A902", "U+A903", "U+A904", "U+A905", "U+A906", "U+A907",
    "U+A908", "U+A909", "U+A9D0", "U+A9D1", "U+A9D2", "U+A9D3", "U+A9D4",
    "U+A9D5", "U+A9D6", "U+A9D7", "U+A9D8", "U+A9D9", "U+A9F0", "U+A9F1",
    "U+A9F2", "U+A9F3", "U+A9F4", "U+A9F5", "U+A9F6", "U+A9F7", "U+A9F8",
    "U+A9F9", "U+AA50", "U+AA51", "U+AA52", "U+AA53", "U+AA54", "U+AA55",
    "U+AA56", "U+AA57", "U+AA58", "U+AA59", "U+ABF0", "U+ABF1", "U+ABF2",
    "U+ABF3", "U+ABF4", "U+ABF5", "U+ABF6", "U+ABF7", "U+ABF8", "U+ABF9",
    "U+FF10", "U+FF11", "U+FF12", "U+FF13", "U+FF14", "U+FF15", "U+FF16",
    "U+FF17", "U+FF18", "U+FF19", "U+104A0", "U+104A1", "U+104A2",
    "U+104A3", "U+104A4", "U+104A5", "U+104A6", "U+104A7", "U+104A8",
    "U+104A9", "U+10D30", "U+10D31", "U+10D32", "U+10D33", "U+10D34",
    "U+10D35", "U+10D36", "U+10D37", "U+10D38", "U+10D39", "U+11066",
    "U+11067", "U+11068", "U+11069", "U+1106A", "U+1106B", "U+1106C",
    "U+1106D", "U+1106E", "U+1106F", "U+110F0", "U+110F1", "U+110F2",
    "U+110F3", "U+110F4", "U+110F5", "U+110F6", "U+110F7", "U+110F8",
    "U+110F9", "U+11136", "U+11137", "U+11138", "U+11139", "U+1113A",
    "U+1113B", "U+1113C", "U+1113D", "U+1113E", "U+1113F", "U+111D0",
    "U+111D1", "U+111D2", "U+111D3", "U+111D4", "U+111D5", "U+111D6",
    "U+111D7", "U+111D8", "U+111D9", "U+112F0", "U+112F1", "U+112F2",
    "U+112F3", "U+112F4", "U+112F5", "U+112F6", "U+112F7", "U+112F8",
    "U+112F9", "U+11450", "U+11451", "U+11452", "U+11453", "U+11454",
    "U+11455", "U+11456", "U+11457", "U+11458", "U+11459", "U+114D0",
    "U+114D1", "U+114D2", "U+114D3", "U+114D4", "U+114D5", "U+114D6",
    "U+114D7", "U+114D8", "U+114D9", "U+11650", "U+11651", "U+11652",
    "U+11653", "U+11654", "U+11655", "U+11656", "U+11657", "U+11658",
    "U+11659", "U+116C0", "U+116C1", "U+116C2", "U+116C3", "U+116C4",
    "U+116C5", "U+116C6", "U+116C7", "U+116C8", "U+116C9", "U+11730",
    "U+11731", "U+11732", "U+11733", "U+11734", "U+11735", "U+11736",
    "U+11737", "U+11738", "U+11739", "U+118E0", "U+118E1", "U+118E2",
    "U+118E3", "U+118E4", "U+118E5", "U+118E6", "U+118E7", "U+118E8",
    "U+118E9", "U+11950", "U+11951", "U+11952", "U+11953", "U+11954",
    "U+11955", "U+11956", "U+11957", "U+11958", "U+11959", "U+11C50",
    "U+11C51", "U+11C52", "U+11C53", "U+11C54", "U+11C55", "U+11C56",
    "U+11C57", "U+11C58", "U+11C59", "U+11D50", "U+11D51", "U+11D52",
    "U+11D53", "U+11D54", "U+11D55", "U+11D56", "U+11D57", "U+11D58",
    "U+11D59", "U+11DA0", "U+11DA1", "U+11DA2", "U+11DA3", "U+11DA4",
    "U+11DA5", "U+11DA6", "U+11DA7", "U+11DA8", "U+11DA9", "U+16A60",
    "U+16A61", "U+16A62", "U+16A63", "U+16A64", "U+16A65", "U+16A66",
    "U+16A67", "U+16A68", "U+16A69", "U+16AC0", "U+16AC1", "U+16AC2",
    "U+16AC3", "U+16AC4", "U+16AC5", "U+16AC6", "U+16AC7", "U+16AC8",
    "U+16AC9", "U+16B50", "U+16B51", "U+16B52", "U+16B53", "U+16B54",
    "U+16B55", "U+16B56", "U+16B57", "U+16B58", "U+16B59", "U+1D7CE",
    "U+1D7CF", "U+1D7D0", "U+1D7D1", "U+1D7D2", "U+1D7D3", "U+1D7D4",
    "U+1D7D5", "U+1D7D6", "U+1D7D7", "U+1D7D8", "U+1D7D9", "U+1D7DA",
    "U+1D7DB", "U+1D7DC", "U+1D7DD", "U+1D7DE", "U+1D7DF", "U+1D7E0",
    "U+1D7E1", "U+1D7E2", "U+1D7E3", "U+1D7E4", "U+1D7E5", "U+1D7E6",
    "U+1D7E7", "U+1D7E8", "U+1D7E9", "U+1D7EA", "U+1D7EB", "U+1D7EC",
    "U+1D7ED", "U+1D7EE", "U+1D7EF", "U+1D7F0", "U+1D7F1", "U+1D7F2",
    "U+1D7F3", "U+1D7F4", "U+1D7F5", "U+1D7F6", "U+1D7F7", "U+1D7F8",
    "U+1D7F9", "U+1D7FA", "U+1D7FB", "U+1D7FC", "U+1D7FD", "U+1D7FE",
    "U+1D7FF", "U+1E140", "U+1E141", "U+1E142", "U+1E143", "U+1E144",
    "U+1E145", "U+1E146", "U+1E147", "U+1E148", "U+1E149", "U+1E2F0",
    "U+1E2F1", "U+1E2F2", "U+1E2F3", "U+1E2F4", "U+1E2F5", "U+1E2F6",
    "U+1E2F7", "U+1E2F8", "U+1E2F9", "U+1E950", "U+1E951", "U+1E952",
    "U+1E953", "U+1E954", "U+1E955", "U+1E956", "U+1E957", "U+1E958",
    "U+1E959", "U+1FBF0", "U+1FBF1", "U+1FBF2", "U+1FBF3", "U+1FBF4",
    "U+1FBF5", "U+1FBF6", "U+1FBF7", "U+1FBF8", "U+1FBF9" }

\* What \d matches (re, str pattern) and \D does not: every decimal digit
\* of Unicode.
Digits == AsciiDigits \cup UnicodeDigits

\* What \s (re, str pattern) and str.strip() treat as blank: the
\* characters for which str.isspace() holds.
Whitespace == {
    "\t", "\n", "U+000B", "\f", "\r", "U+001C", "U+001D", "U+001E",
    "U+001F", " ", "U+0085", "U+00A0", "U+1680", "U+2000", "U+2001",
    "U+2002", "U+2003", "U+2004", "U+2005", "U+2006", "U+2007", "U+2008",
    "U+2009", "U+200A", "U+2028", "U+2029", "U+202F", "U+205F", "U+3000" }

IsDigit(c) == c \in Digits

\* Python truthiness of a str-or-None value.
Truthy(v) == v # None /\ v # <<>>

\* re.sub(r'\D', '', text): the digits of text, in order.
OnlyDigits(t) == SelectSeq(t, IsDigit)

\* f"{digits[:2]} {digits[2:6]} {digits[6:]}"
Format(d) == SubSeq(d, 1, 2) \o <<" ">> \o SubSeq(d, 3, 6) \o <<" ">> \o SubSeq(d, 7, Len(d))

\* A normalizer that accepts ten digits or more.
clean_phone_AtLeastTen(t) ==
    LET digits == OnlyDigits(t)
    IN  IF Len(digits) >= 10 THEN Format(digits) ELSE None

\* clean_phone(text)
clean_phone(t) ==
    LET digits == OnlyDigits(t)
    IN  IF Len(digits) = 10 THEN Format(digits) ELSE None


----------------------------------------------------------------------------
(* Text operations used by extract_phones                                  *)

Range(f) == {f[i] : i \in DOMAIN f}

\* len(df): the rows of a dataset indexed from 0.
RowCount(d) == Cardinality(DOMAIN d)

MinOf(S) == CHOOSE x \in S : \A y \in S : x <= y
MaxOf(S) == CHOOSE x \in S : \A y \in S : x >= y

\* str.strip()
Strip(t) ==
    LET keep == {i \in 1..Len(t) : t[i] \notin Whitespace}
    IN  IF keep = {} THEN <<>> ELSE SubSeq(t, MinOf(keep), MaxOf(keep))

TelPrefix == <<"t", "e", "l", ":">>

\* str.replace('tel:', '')
RECURSIVE ReplaceTel(_)
ReplaceTel(t) ==
    IF t = <<>> THEN <<>>
    ELSE IF Len(t) >= Len(TelPrefix) /\ SubSeq(t, 1, Len(TelPrefix)) = TelPrefix
         THEN ReplaceTel(SubSeq(t, Len(TelPrefix) + 1, Len(t)))
         ELSE <<Head(t)>> \o ReplaceTel(Tail(t))

\* "..." in partial_number
HasEllipsis(t) ==
    \E i \in 1..(Len(t) - 2) : t[i] = "." /\ t[i + 1] = "." /\ t[i + 2] = "."

DigitsAt(t, i, n) == i + n - 1 <= Len(t) /\ \A k \in i..(i + n - 1) : IsDigit(t[k])

BlankAt(t, i) == i <= Len(t) /\ t[i] \in Whitespace

\* Length of the match of \d{2}\s?\d{4}\s?\d{4} starting at position i, 0 if none.
MatchLen(t, i) ==
    IF ~DigitsAt(t, i, 2) THEN 0
    ELSE LET s1 == IF BlankAt(t, i + 2) THEN 1 ELSE 0
         IN  IF ~DigitsAt(t, i + 2 + s1, 4) THEN 0
             ELSE LET s2 == IF BlankAt(t, i + 6 + s1) THEN 1 ELSE 0
                  IN  IF ~DigitsAt(t, i + 6 + s1 + s2, 4) THEN 0
                      ELSE 10 + s1 + s2

\* re.findall(r'\d{2}\s?\d{4}\s?\d{4}', modal_text): leftmost, non-overlapping.
RECURSIVE FindAllFrom(_, _)
FindAllFrom(t, i) ==
    IF i > Len(t) THEN <<>>
    ELSE LET n == MatchLen(t, i)
         IN  IF n > 0 THEN <<SubSeq(t, i, i + n - 1)>> \o FindAllFrom(t, i + n)
             ELSE FindAllFrom(t, i + 1)

FindAll(t) == FindAllFrom(t, 1)

----------------------------------------------------------------------------
(* extract_phones: one container of the page                               *)

\* The most numbers a row receives (lines 114 and 248).
PhoneCap == 2

\* A membership test that was left out.
IsNew_NoDedup(acc, c) == Truthy(c)

\* cleaned and cleaned not in extracted_phones
IsNew(acc, c) == Truthy(c) /\ c \notin Range(acc)

\* The position of the candidate a strategy's for-loop appends (it breaks
\* there), 0 when the loop ends without appending.
FirstNew(acc, cands) ==
    LET ok == {i \in 1..Len(cands) : IsNew(acc, clean_phone(cands[i]))}
    IN  IF ok = {} THEN 0 ELSE MinOf(ok)

\* The candidates a strategy's for-loop hands to clean_phone.
Handed(cands, k) == {cands[i] : i \in 1..(IF k = 0 THEN Len(cands) ELSE k)}

\* Lines 172-176, 184-188, 196-200: the strategy whose loop appended (k > 0
\* is the position it broke at) decides the accumulator.
Appended(acc, tel, bold, re, k1, k2, k3) ==
    IF k1 > 0
    THEN [acc |-> Append(acc, clean_phone(tel[k1])), handed |-> Handed(tel, k1)]
    ELSE IF k2 > 0
    THEN [acc |-> Append(acc, clean_phone(bold[k2])),
          handed |-> Handed(tel, 0) \cup Handed(bold, k2)]
    ELSE IF k3 > 0
    THEN [acc |-> Append(acc, clean_phone(re[k3])),
          handed |-> Handed(tel, 0) \cup Handed(bold, 0) \cup Handed(re, k3)]
    ELSE [acc |-> acc,
          handed |-> Handed(tel, 0) \cup Handed(bold, 0) \cup Handed(re, 0)]

\* Lines 168-170, 180-182, 192-193: the candidates of the three strategies.
TelTexts(c)  == [i \in 1..Len(c.tel) |-> Strip(ReplaceTel(c.tel[i]))]
BoldTexts(c) == [i \in 1..Len(c.bold) |-> Strip(c.bold[i])]
TextMatches(c) == FindAll(c.body)

Chain(acc, tel, bold, re) ==
    Appended(acc, tel, bold, re, FirstNew(acc, tel), FirstNew(acc, bold), FirstNew(acc, re))

\* Lines 164-200: tel links, then bold texts, then the regex over the panel text.
Strategies(acc, c) == Chain(acc, TelTexts(c), BoldTexts(c), TextMatches(c))

\* Lines 202-217: close the panel; without a close control hide it by script.
ClosePanel(c) ==
    IF c.close = "ok" THEN "none"
    ELSE IF c.hide = "ok" THEN "none" ELSE "WebDriverException"

\* Lines 202-219 after the strategies: the accumulator is kept whatever the
\* closing does.
Closed(st, c) == [acc |-> st.acc, handed |-> st.handed, raised |-> ClosePanel(c)]

\* Lines 138-222: wait for the panel, read it, close it.  c.panel is the
\* outcome of the wait that data-target selects (line 150 by the panel's
\* data-id, line 155 by the generic selector); a timeout is caught at 221.
Panel(acc, c) ==
    IF c.panel = "timeout"
    THEN [acc |-> acc, handed |-> {}, raised |-> "none"]
    ELSE Closed(Strategies(acc, c), c)

\* A masking test that was left out: every visible text counts as complete.
IsMasked_Never(partial) == FALSE

\* Line 122: the visible number is partial.
IsMasked(partial) == HasEllipsis(partial)

Clicked(p) == [acc |-> p.acc, clicked |-> TRUE, handed |-> p.handed, raised |-> p.raised]

\* Lines 123-222: the number is masked; find the control, click it, read the panel.
Reveal(acc, c) ==
    IF c.button = "missing"
    THEN [acc |-> acc, clicked |-> FALSE, handed |-> {}, raised |-> "NoSuchElementException"]
    ELSE IF c.click = "fails"
    THEN [acc |-> acc, clicked |-> TRUE, handed |-> {}, raised |-> "WebDriverException"]
    ELSE Clicked(Panel(acc, c))

\* Lines 227-229.
Accept(acc, c1) == IF IsNew(acc, c1) THEN Append(acc, c1) ELSE acc

\* Lines 224-229: the visible text is normalized as it is.
Direct(acc, partial_number) ==
    [acc |-> Accept(acc, clean_phone(partial_number)), clicked |-> FALSE,
     handed |-> {partial_number}, raised |-> "none"]

\* Lines 119-229.
Visible(acc, c, partial_number) ==
    IF IsMasked(partial_number) THEN Reveal(acc, c) ELSE Direct(acc, partial_number)

\* Lines 117-232: the body of the for-loop after the cap test.
ProcessContainer(acc, c) ==
    IF c.span = "missing"
    THEN [acc |-> acc, clicked |-> FALSE, handed |-> {}, raised |-> "NoSuchElementException"]
    ELSE IF c.span = "stale"
    THEN [acc |-> acc, clicked |-> FALSE, handed |-> {}, raised |-> "WebDriverException"]
    ELSE Visible(acc, c, Strip(c.visible))

\* A cap test that is off by one.
CapReached_OffByOne(acc) == Len(acc) > PhoneCap

\* Lines 113-115: stop once the accumulator holds two numbers.
CapReached(acc) == Len(acc) >= PhoneCap

\* Handlers that give up on the page instead of continuing.
AfterContainer_GiveUp(raised) == IF raised = "none" THEN "loop" ELSE "return"

\* Lines 234-239: both handlers log and continue with the next container.
AfterContainer(raised) == "loop"

\* Line 248: extracted_phones[:2]
Returned(acc) == SubSeq(acc, 1, IF Len(acc) < PhoneCap THEN Len(acc) ELSE PhoneCap)


----------------------------------------------------------------------------
(* The pages extract_phones is run on                                      *)

\* Most reveal containers on a page.
MaxContainers == 3

PhoneA      == <<"5", "5", " ", "1", "2", "3", "4", " ", "5", "6", "7", "8">>
PhoneAHref  == <<"t", "e", "l", ":", "5", "5", "1", "2", "3", "4", "5", "6", "7", "8">>
PhoneB      == <<"5", "5", " ", "9", "8", "7", "6", " ", "5", "4", "3", "2">>
PhoneBHref  == <<"t", "e", "l", ":", "5", "5", "-", "9", "8", "7", "6", "-", "5", "4", "3", "2">>
PhoneC      == <<"5", "5", " ", "1", "1", "1", "1", " ", "2", "2", "2", "2">>
ShortText   == <<"1", "2", "3", "-", "4", "5", "6">>
MaskedText  == <<"5", "5", " ", "1", "2", "3", "4", " ", ".", ".", ".">>
MaskedTen   == <<"5", "5", "1", "2", "3", "4", "5", "6", "7", "8", ".", ".", ".">>
\* PhoneA with its first two digits in fullwidth form, between newlines.
PhoneAWide  == <<"\n", "U+FF15", "U+FF15", " ", "1", "2", "3", "4", " ", "5", "6", "7", "8", "\n">>
\* A panel text with the groups of PhoneB on lines and tab stops of their own.
PanelLines  == <<"T", "e", "l", "\n", "5", "5", "\n", "9", "8", "7", "6", "\t", "5", "4", "3", "2", "\n">>
PanelText   == <<" ", "T", "e", "l", " ", "5", "5", " ", "1", "2", "3", "4", " ", "5", "6", "7", "8", " ", "o", " ", "5", "5", "9", "8", "7", "6", "5", "4", "3", "2">>

\* A container whose number is masked and whose panel opens and closes.
Masked ==
    [span |-> "ok", visible |-> MaskedText, button |-> "ok", click |-> "ok",
     panel |-> "ok", tel |-> <<>>, bold |-> <<>>, body |-> <<>>,
     close |-> "ok", hide |-> "ok"]

ContainerKinds ==
    { [Masked EXCEPT !.visible = PhoneA],
      [Masked EXCEPT !.visible = PhoneB],
      [Masked EXCEPT !.visible = ShortText],
      [Masked EXCEPT !.span = "missing"],
      [Masked EXCEPT !.span = "stale"],
      [Masked EXCEPT !.visible = MaskedTen, !.button = "missing"],
      [Masked EXCEPT !.click = "fails", !.tel = <<PhoneAHref>>],
      [Masked EXCEPT !.panel = "timeout", !.tel = <<PhoneAHref>>],
      [Masked EXCEPT !.visible = MaskedTen, !.tel = <<PhoneBHref>>],
      [Masked EXCEPT !.tel = <<PhoneAHref, PhoneBHref>>, !.close = "missing"],
      [Masked EXCEPT !.bold = <<ShortText, PhoneC>>],
      [Masked EXCEPT !.body = PanelText],
      [Masked EXCEPT !.visible = PhoneAWide],
      [Masked EXCEPT !.body = PanelLines],
      [Masked EXCEPT !.tel = <<PhoneBHref>>, !.close = "missing", !.hide = "fails"] }

ContainerLists == UNION {[1..n -> ContainerKinds] : n \in 0..MaxContainers}

Pages == [nav : {"ok", "fails"}, find : {"ok", "fails"}, containers : ContainerLists]

----------------------------------------------------------------------------
(* extract_phones as process_excel_file calls it                           *)

\* Lines 111-239: the for-loop from container i on.
RECURSIVE Containers(_, _, _)

\* A container handler that lets a browser failure reach lines 250-252.
Continue_Abort(r, cs, i) ==
    IF r.raised = "WebDriverException" THEN <<>> ELSE Containers(r.acc, cs, i + 1)

\* Lines 234-239 and 111: after container i.
Continue(r, cs, i) ==
    IF AfterContainer(r.raised) = "loop" THEN Containers(r.acc, cs, i + 1) ELSE r.acc

Containers(acc, cs, i) ==
    IF i > Len(cs) \/ CapReached(acc) THEN acc
    ELSE Continue(ProcessContainer(acc, cs[i]), cs, i)

\* extract_phones(profile_url, row_index) on the page the browser shows.
extract_phones(pg) ==
    IF pg.nav = "fails" THEN <<>>
    ELSE IF pg.find = "fails" THEN Returned(<<>>)
    ELSE Returned(Containers(<<>>, pg.containers, 1))

----------------------------------------------------------------------------
(* process_excel_file                                                      *)

\* Rows of the sheet.
MaxRows == 21

\* Most rows of a run that are not an ordinary profile with two numbers.
MaxOddRows == 1

\* Most periodic saves of a run that fail.
MaxSaveFailures == 1

\* Line 315: progress is saved every 10 records.
SaveEvery == 10

NoUrl        == <<"No URL">>
NoPhoneFound == <<"No phone found">>
Blank        == <<>>

\* f"Error: {str(e)}"
ErrorSentinel(e) == <<"Error: ", e>>

IsErrorSentinel(v) == Len(v) = 2 /\ v[1] = "Error: "

\* What column A of a row holds: nothing (NaN), an empty string, a zero
\* (0, 0.0 or False), a number other than zero, a URL without a scheme, a
\* URL with one.
UrlKinds == {"nan", "empty", "zero", "number", "schemeless", "http"}

\* A blank test that knows NaN only.
NoUrlCell_OnlyNaN(url) == url = "nan"

\* Line 295: pd.isna(profile_url) or not profile_url; an empty string and a
\* zero are falsy.
NoUrlCell(url) == url \in {"nan", "empty", "zero"}

\* Lines 301-302: a number has no startswith; a URL gets its scheme.
UrlFails(url) == url = "number"

NormalizedUrl(url) == IF url = "schemeless" THEN "http" ELSE url

\* The profile pages of the rows.
PageTwo  == [nav |-> "ok", find |-> "ok",
             containers |-> << [Masked EXCEPT !.tel = <<PhoneAHref>>],
                               [Masked EXCEPT !.visible = PhoneB] >>]
PageOne  == [nav |-> "ok", find |-> "ok",
             containers |-> << [Masked EXCEPT !.visible = PhoneA],
                               [Masked EXCEPT !.tel = <<PhoneAHref>>] >>]
PageNone == [nav |-> "ok", find |-> "ok", containers |-> <<>>]
PageDown == [nav |-> "fails", find |-> "ok", containers |-> <<>>]
\* A page whose second container loses the browser on the click.
PageBroken == [nav |-> "ok", find |-> "ok",
               containers |-> << [Masked EXCEPT !.visible = PhoneA],
                                 [Masked EXCEPT !.click = "fails", !.tel = <<PhoneAHref>>],
                                 [Masked EXCEPT !.visible = PhoneB] >>]

RowPages == {PageTwo, PageOne, PageNone, PageDown, PageBroken}

\* What extract_phones returns for each of them.
RowPhones == [pg \in RowPages |-> extract_phones(pg)]

\* The ordinary row: a URL with its scheme whose page shows two numbers.
Ordinary(url, pg) == url = "http" /\ pg = PageTwo

\* Lines 275-278: the output columns start empty.
EmptySheet(n) == [i \in 0..(n - 1) |-> [Phone1 |-> Blank, Phone2 |-> Blank]]

\* Lines 287-288.
StartIndex == start_row - 1
EndIndex ==
    IF max_rows # 0
    THEN (IF RowCount(df) < StartIndex + max_rows THEN RowCount(df) ELSE StartIndex + max_rows)
    ELSE RowCount(df)

\* Lines 308-309.
Phone1Of(phones) == IF Len(phones) > 0 THEN phones[1] ELSE NoPhoneFound
Phone2Of(phones) == IF Len(phones) > 1 THEN phones[2] ELSE Blank

\* A save test made before the count is incremented.
SaveDue_BeforeCount(count) == (count - 1) % SaveEvery = 0

\* Line 315, on the count after line 311.
SaveDue(count) == count % SaveEvery = 0

\* A row handler that leaves the loop.
AfterRowFailure_Abort == "finally"

\* Lines 322-325: the row handler records the failure and continues.
AfterRowFailure == "loop"

\* A handler that saves before it re-raises.
EscapeHandler_Saves == <<"log", "save", "raise">>

\* Lines 331-333: what the handler of an escaping failure does.
EscapeHandler == <<"log", "raise">>

\* to_excel calls of the handler.
HandlerSaves == Cardinality({i \in 1..Len(EscapeHandler) : EscapeHandler[i] = "save"})

\* df.to_excel(path) that completes / that raises: the file is overwritten in
\* place, so a failed write leaves it as it was or torn.
Written(d) == [data |-> d, torn |-> FALSE]
FailedWrite(dk) == {dk, [dk EXCEPT !.torn = TRUE]}

\* A release on the success path only.
QuitDue_OnSuccess(drv, out) == drv = "live" /\ out = "returned"

\* Line 335: if self.driver, true of a browser object, live or already quit.
QuitDue(drv, out) == drv # "none"

NoRow == [index |-> -1, url |-> "none", called |-> FALSE, page |-> PageNone,
          phones |-> <<>>, failure |-> "none"]

RunIdle ==
    /\ pcR = "idle"
    /\ start_row = 2
    /\ max_rows = 0
    /\ df = <<>>
    /\ disk = Written(<<>>)
    /\ index = 0
    /\ processed_count = 0
    /\ driver = "none"
    /\ sessions = 0
    /\ outcome = "running"
    /\ last = NoRow
    /\ counted = 0
    /\ periodic = 0
    /\ unsaved = 0
    /\ finalWrite = "none"
    /\ lateWrites = 0
    /\ oddRows = 0
    /\ saveFailures = 0

\* process_excel_file at line 305, about to call extract_phones for the
\* first row of the range: the sheet was read and setup_driver has returned.
RunAtRow ==
    /\ pcR = "loop"
    /\ start_row = 2
    /\ max_rows = 0
    /\ df = EmptySheet(MaxRows)
    /\ disk = Written(EmptySheet(MaxRows))
    /\ index = 1
    /\ processed_count = 0
    /\ driver = "live"
    /\ sessions = 1
    /\ outcome = "running"
    /\ last = NoRow
    /\ counted = 0
    /\ periodic = 0
    /\ unsaved = 0
    /\ finalWrite = "none"
    /\ lateWrites = 0
    /\ oddRows = 0
    /\ saveFailures = 0

----------------------------------------------------------------------------
(* SpecExtract: extract_phones on one page, one step per container         *)

CleanIdle ==
    /\ text = <<>>
    /\ cleaned = None
    /\ pcC = "idle"

ExtractIdle ==
    /\ page = [nav |-> "ok", find |-> "ok", containers |-> <<>>]
    /\ pcE = "idle"
    /\ extracted_phones = <<>>
    /\ container_index = 0
    /\ result = <<>>
    /\ inspected = <<>>
    /\ clicks = <<>>
    /\ normalized = {}
    /\ accepted = <<>>

InitExtract ==
    /\ page \in Pages
    /\ pcE = "navigate"
    /\ extracted_phones = <<>>
    /\ container_index = 0
    /\ result = <<>>
    /\ inspected = <<>>
    /\ clicks = <<>>
    /\ normalized = {}
    /\ accepted = <<>>
    /\ CleanIdle
    /\ RunAtRow

\* Lines 96-104: the page loads.
NavigateOk ==
    /\ pcE = "navigate"
    /\ page.nav = "ok"
    /\ pcE' = "find"
    /\ UNCHANGED <<page, extracted_phones, container_index, result,
                   inspected, clicks, normalized, accepted, cleanVars, runVars>>

\* Lines 250-255: driver.get or the wait for <body> raises.
NavigateFails ==
    /\ pcE = "navigate"
    /\ page.nav = "fails"
    /\ result' = <<>>
    /\ pcE' = "done"
    /\ UNCHANGED <<page, extracted_phones, container_index,
                   inspected, clicks, normalized, accepted, cleanVars, runVars>>

\* Line 108: find_elements returns the containers.
FindContainers ==
    /\ pcE = "find"
    /\ page.find = "ok"
    /\ container_index' = 1
    /\ pcE' = "loop"
    /\ UNCHANGED <<page, extracted_phones, result,
                   inspected, clicks, normalized, accepted, cleanVars, runVars>>

\* Lines 241-244: find_elements raises; the handler logs and falls through.
FindFails ==
    /\ pcE = "find"
    /\ page.find = "fails"
    /\ pcE' = "return"
    /\ UNCHANGED <<page, extracted_phones, container_index, result,
                   inspected, clicks, normalized, accepted, cleanVars, runVars>>

\* Lines 111-239: one iteration of the for-loop that gets past the cap test.
ProcessNext ==
    /\ pcE = "loop"
    /\ container_index <= Len(page.containers)
    /\ ~CapReached(extracted_phones)
    /\ \E r \in {ProcessContainer(extracted_phones, page.containers[container_index])} :
           /\ extracted_phones' = r.acc
           /\ inspected' = Append(inspected, <<container_index, Len(extracted_phones)>>)
           /\ clicks' = IF r.clicked THEN Append(clicks, container_index) ELSE clicks
           /\ normalized' = normalized \cup {<<container_index, t>> : t \in r.handed}
           /\ accepted' = IF r.acc # extracted_phones
                          THEN Append(accepted, <<container_index, r.acc[Len(r.acc)]>>)
                          ELSE accepted
           /\ pcE' = AfterContainer(r.raised)
    /\ container_index' = container_index + 1
    /\ UNCHANGED <<page, result, cleanVars, runVars>>

\* Lines 113-115: break.
LoopBreak ==
    /\ pcE = "loop"
    /\ container_index <= Len(page.containers)
    /\ CapReached(extracted_phones)
    /\ pcE' = "return"
    /\ UNCHANGED <<page, extracted_phones, container_index, result,
                   inspected, clicks, normalized, accepted, cleanVars, runVars>>

\* The for-loop runs out of containers.
LoopEnd ==
    /\ pcE = "loop"
    /\ container_index > Len(page.containers)
    /\ pcE' = "return"
    /\ UNCHANGED <<page, extracted_phones, container_index, result,
                   inspected, clicks, normalized, accepted, cleanVars, runVars>>

\* Lines 246-248.
Return ==
    /\ pcE = "return"
    /\ result' = Returned(extracted_phones)
    /\ pcE' = "done"
    /\ UNCHANGED <<page, extracted_phones, container_index,
                   inspected, clicks, normalized, accepted, cleanVars, runVars>>

NextExtract ==
    \/ NavigateOk
    \/ NavigateFails
    \/ FindContainers
    \/ FindFails
    \/ ProcessNext
    \/ LoopBreak
    \/ LoopEnd
    \/ Return

SpecExtract == InitExtract /\ [][NextExtract]_vars

----------------------------------------------------------------------------
(* SpecClean: clean_phone applied to every text over a small alphabet      *)

\* An ASCII digit, a digit outside ASCII (ARABIC-INDIC DIGIT THREE) and a
\* separator.
CleanAlphabet == {"5", "U+0663", "-"}

CleanTexts == UNION {[1..n -> CleanAlphabet] : n \in 0..MaxTextLen}

InitClean ==
    /\ text \in CleanTexts
    /\ cleaned = None
    /\ pcC = "call"
    /\ ExtractIdle
    /\ RunIdle

CallClean ==
    /\ pcC = "call"
    /\ cleaned' = clean_phone(text)
    /\ pcC' = "returned"
    /\ UNCHANGED <<text, extractVars, runVars>>

NextClean == CallClean

SpecClean == InitClean /\ [][NextClean]_vars

\* The positions of text that hold a decimal digit.
DigitPositions(t) == {i \in 1..Len(t) : t[i] \in Digits}

\* The k-th decimal digit of text, counting from 1.
NthDigit(t, k) ==
    LET p == CHOOSE i \in DigitPositions(t) :
                 Cardinality({j \in DigitPositions(t) : j <= i}) = k
    IN  t[p]

\* C1: clean_phone returns the ten digits of the text as "DD DDDD DDDD"
\* (digits in their order of appearance, one space after the 2nd and one
\* after the 6th) when the text holds exactly ten decimal digits, and None
\* for every other digit count.
C1_Normalizer ==
    pcC = "returned" =>
        IF Cardinality(DigitPositions(text)) = 10
        THEN /\ Len(cleaned) = 12
             /\ cleaned[3] = " " /\ cleaned[8] = " "
             /\ \A k \in 1..2  : cleaned[k] = NthDigit(text, k)
             /\ \A k \in 3..6  : cleaned[k + 1] = NthDigit(text, k)
             /\ \A k \in 7..10 : cleaned[k + 2] = NthDigit(text, k)
        ELSE cleaned = None

\* A text with a separator among ten digits of two kinds has been normalized.
C1_Witness ==
    /\ pcC = "returned"
    /\ Cardinality(DigitPositions(text)) = 10
    /\ Len(text) > 10
    /\ \E i, j \in DigitPositions(text) : text[i] # text[j]
    /\ cleaned # None

----------------------------------------------------------------------------
(* SpecRun: one run of process_excel_file, one step per row                *)

InitRun ==
    /\ pcR = "read"
    /\ start_row \in {1, 2}
    /\ max_rows \in {0, MaxRows - 2}
    /\ df = <<>>
    /\ disk \in {Written(EmptySheet(MaxRows)), Written(EmptySheet(0))}
    /\ index = 0
    /\ processed_count = 0
    /\ driver = "none"
    /\ sessions = 0
    /\ outcome = "running"
    /\ last = NoRow
    /\ counted = 0
    /\ periodic = 0
    /\ unsaved = 0
    /\ finalWrite = "none"
    /\ lateWrites = 0
    /\ oddRows = 0
    /\ saveFailures = 0
    /\ CleanIdle
    /\ ExtractIdle

\* Lines 331-337 reached by a failure: the handler runs, then finally.
Escape(dk) ==
    /\ outcome' = "raised"
    /\ lateWrites' = HandlerSaves
    /\ disk' = IF HandlerSaves > 0 THEN Written(df) ELSE dk
    /\ pcR' = "finally"

\* Lines 268-280: the sheet is read and has rows.
ReadOk ==
    /\ pcR = "read"
    /\ RowCount(disk.data) > 0
    /\ df' = disk.data
    /\ pcR' = "setup"
    /\ UNCHANGED <<start_row, max_rows, disk, index, processed_count, driver, sessions,
                   outcome, last, counted, periodic, unsaved, finalWrite, lateWrites,
                   oddRows, saveFailures, cleanVars, extractVars>>

\* Lines 270-272: the sheet has no rows; the run returns.
ReadEmpty ==
    /\ pcR = "read"
    /\ RowCount(disk.data) = 0
    /\ df' = disk.data
    /\ outcome' = "returned"
    /\ pcR' = "finally"
    /\ UNCHANGED <<start_row, max_rows, disk, index, processed_count, driver, sessions,
                   last, counted, periodic, unsaved, finalWrite, lateWrites,
                   oddRows, saveFailures, cleanVars, extractVars>>

\* Line 268 raises: the file cannot be read.
ReadFails ==
    /\ pcR = "read"
    /\ Escape(disk)
    /\ UNCHANGED <<start_row, max_rows, df, index, processed_count, driver, sessions,
                   last, counted, periodic, unsaved, finalWrite,
                   oddRows, saveFailures, cleanVars, extractVars>>

\* Lines 283-288: setup_driver succeeds and the range is computed.
SetupOk ==
    /\ pcR = "setup"
    /\ driver' = "live"
    /\ sessions' = sessions + 1
    /\ index' = StartIndex
    /\ pcR' = "loop"
    /\ UNCHANGED <<start_row, max_rows, df, disk, processed_count,
                   outcome, last, counted, periodic, unsaved, finalWrite, lateWrites,
                   oddRows, saveFailures, cleanVars, extractVars>>

\* Line 55 raises: no browser was created.
SetupFailsNoBrowser ==
    /\ pcR = "setup"
    /\ Escape(disk)
    /\ UNCHANGED <<start_row, max_rows, df, index, processed_count, driver, sessions,
                   last, counted, periodic, unsaved, finalWrite,
                   oddRows, saveFailures, cleanVars, extractVars>>

\* Line 56 raises: the browser exists and self.driver holds it.
SetupFailsWithBrowser ==
    /\ pcR = "setup"
    /\ driver' = "live"
    /\ sessions' = sessions + 1
    /\ Escape(disk)
    /\ UNCHANGED <<start_row, max_rows, df, index, processed_count,
                   last, counted, periodic, unsaved, finalWrite,
                   oddRows, saveFailures, cleanVars, extractVars>>

\* Lines 295-298: no URL in the row.
RowNoUrl ==
    /\ pcR = "loop"
    /\ index < EndIndex
    /\ oddRows < MaxOddRows
    /\ \E url \in UrlKinds :
           /\ NoUrlCell(url)
           /\ last' = [index |-> index, url |-> url, called |-> FALSE,
                       page |-> PageNone, phones |-> <<>>, failure |-> "none"]
    /\ df' = [df EXCEPT ![index].Phone1 = NoUrl]
    /\ index' = index + 1
    /\ oddRows' = oddRows + 1
    /\ UNCHANGED <<pcR, start_row, max_rows, disk, processed_count, driver, sessions,
                   outcome, counted, periodic, unsaved, finalWrite, lateWrites,
                   saveFailures, cleanVars, extractVars>>

\* Lines 301 and 322-325: the cell is no string; the row handler records it.
RowBadUrl ==
    /\ pcR = "loop"
    /\ index < EndIndex
    /\ oddRows < MaxOddRows
    /\ \E url \in UrlKinds :
           /\ ~NoUrlCell(url)
           /\ UrlFails(url)
           /\ last' = [index |-> index, url |-> url, called |-> FALSE,
                       page |-> PageNone, phones |-> <<>>, failure |-> "AttributeError"]
    /\ df' = [df EXCEPT ![index].Phone1 = ErrorSentinel("AttributeError")]
    /\ index' = index + 1
    /\ oddRows' = oddRows + 1
    /\ pcR' = AfterRowFailure
    /\ UNCHANGED <<start_row, max_rows, disk, processed_count, driver, sessions,
                   outcome, counted, periodic, unsaved, finalWrite, lateWrites,
                   saveFailures, cleanVars, extractVars>>

\* Lines 300-320: the row is extracted, written and counted; a periodic save
\* that is due completes.
RowExtracted ==
    /\ pcR = "loop"
    /\ index < EndIndex
    /\ \E url \in UrlKinds, pg \in RowPages :
           /\ ~NoUrlCell(url)
           /\ ~UrlFails(url)
           /\ Ordinary(url, pg) \/ oddRows < MaxOddRows
           /\ oddRows' = IF Ordinary(url, pg) THEN oddRows ELSE oddRows + 1
           /\ \E phones \in {RowPhones[pg]} :
                  /\ df' = [df EXCEPT ![index] = [Phone1 |-> Phone1Of(phones),
                                                  Phone2 |-> Phone2Of(phones)]]
                  /\ last' = [index |-> index, url |-> NormalizedUrl(url), called |-> TRUE,
                              page |-> pg, phones |-> phones, failure |-> "none"]
    /\ processed_count' = processed_count + 1
    /\ IF SaveDue(processed_count')
       THEN /\ disk' = Written(df')
            /\ counted' = 0
            /\ periodic' = counted + 1
            /\ unsaved' = 0
       ELSE /\ counted' = counted + 1
            /\ unsaved' = unsaved + 1
            /\ UNCHANGED <<disk, periodic>>
    /\ index' = index + 1
    /\ UNCHANGED <<pcR, start_row, max_rows, driver, sessions,
                   outcome, finalWrite, lateWrites,
                   saveFailures, cleanVars, extractVars>>

\* Lines 300-316 and 322-325: the row is extracted, written and counted, the
\* periodic save raises and the row handler overwrites Phone1.
RowSaveFails ==
    /\ pcR = "loop"
    /\ index < EndIndex
    /\ saveFailures < MaxSaveFailures
    /\ SaveDue(processed_count + 1)
    /\ \E url \in UrlKinds, pg \in RowPages :
           /\ ~NoUrlCell(url)
           /\ ~UrlFails(url)
           /\ Ordinary(url, pg) \/ oddRows < MaxOddRows
           /\ oddRows' = IF Ordinary(url, pg) THEN oddRows ELSE oddRows + 1
           /\ \E phones \in {RowPhones[pg]} :
                  /\ df' = [df EXCEPT ![index] = [Phone1 |-> ErrorSentinel("to_excel"),
                                                  Phone2 |-> Phone2Of(phones)]]
                  /\ last' = [index |-> index, url |-> NormalizedUrl(url), called |-> TRUE,
                              page |-> pg, phones |-> phones, failure |-> "to_excel"]
    /\ processed_count' = processed_count + 1
    /\ disk' \in FailedWrite(disk)
    /\ counted' = 0
    /\ periodic' = counted + 1
    /\ saveFailures' = saveFailures + 1
    /\ index' = index + 1
    /\ pcR' = AfterRowFailure
    /\ UNCHANGED <<start_row, max_rows, driver, sessions,
                   outcome, unsaved, finalWrite, lateWrites, cleanVars, extractVars>>

\* Lines 327-329: the loop is over and the final save completes.
FinalSaveOk ==
    /\ pcR = "loop"
    /\ index >= EndIndex
    /\ disk' = Written(df)
    /\ finalWrite' = "ok"
    /\ unsaved' = 0
    /\ outcome' = "returned"
    /\ pcR' = "finally"
    /\ UNCHANGED <<start_row, max_rows, df, index, processed_count, driver, sessions,
                   last, counted, periodic, lateWrites,
                   oddRows, saveFailures, cleanVars, extractVars>>

\* Line 328 raises.
FinalSaveFails ==
    /\ pcR = "loop"
    /\ index >= EndIndex
    /\ finalWrite' = "failed"
    /\ \E dk \in FailedWrite(disk) : Escape(dk)
    /\ UNCHANGED <<start_row, max_rows, df, index, processed_count, driver, sessions,
                   last, counted, periodic, unsaved,
                   oddRows, saveFailures, cleanVars, extractVars>>

\* Lines 334-337.
Finally ==
    /\ pcR = "finally"
    /\ driver' = IF QuitDue(driver, outcome) THEN "quit" ELSE driver
    /\ pcR' = "done"
    /\ UNCHANGED <<start_row, max_rows, df, disk, index, processed_count, sessions,
                   outcome, last, counted, periodic, unsaved, finalWrite, lateWrites,
                   oddRows, saveFailures, cleanVars, extractVars>>

NextRun ==
    \/ ReadOk
    \/ ReadEmpty
    \/ ReadFails
    \/ SetupOk
    \/ SetupFailsNoBrowser
    \/ SetupFailsWithBrowser
    \/ RowNoUrl
    \/ RowBadUrl
    \/ RowExtracted
    \/ RowSaveFails
    \/ FinalSaveOk
    \/ FinalSaveFails
    \/ Finally

SpecRun == InitRun /\ [][NextRun]_vars

----------------------------------------------------------------------------
(* Properties of extract_phones                                            *)

Container(k) == page.containers[k]

InspectedSet == {inspected[i][1] : i \in 1..Len(inspected)}

\* The numbers accepted from container k, and from the containers up to k.
AcceptedFrom(k) == {accepted[i][2] : i \in {j \in 1..Len(accepted) : accepted[j][1] = k}}
AcceptedUpTo(k) == {i \in 1..Len(accepted) : accepted[i][1] <= k}

\* The visible text of container k is masked / is a complete ten-digit value.
ShowsMasked(k) == Container(k).span = "ok" /\ HasEllipsis(Container(k).visible)
ShowsNumber(k) ==
    /\ Container(k).span = "ok"
    /\ ~HasEllipsis(Container(k).visible)
    /\ Cardinality(DigitPositions(Container(k).visible)) = 10

\* C2: the accumulator and the result never hold more than two numbers, no
\* container is inspected or clicked once two numbers are held, and the
\* result is the first two accepted numbers in container order.
C2_Cap ==
    /\ Len(extracted_phones) <= 2
    /\ Len(result) <= 2
    /\ \A i \in 1..Len(inspected) : inspected[i][2] < 2
    /\ \A i \in 1..Len(clicks) :
           \E j \in 1..Len(inspected) : inspected[j][1] = clicks[i] /\ inspected[j][2] < 2
    /\ \A i, j \in 1..Len(accepted) : i < j => accepted[i][1] < accepted[j][1]
    /\ pcE = "done" =>
           /\ Len(result) = (IF Len(accepted) < 2 THEN Len(accepted) ELSE 2)
           /\ \A i \in 1..Len(result) : result[i] = accepted[i][2]

\* Two numbers were returned and a later container that shows a third,
\* different number was never inspected.
C2_Witness ==
    /\ pcE = "done"
    /\ Len(result) = 2
    /\ \E k \in 1..Len(page.containers) :
           /\ k \notin InspectedSet
           /\ ShowsNumber(k)
           /\ clean_phone(Container(k).visible) \notin Range(result)

\* C3: the accumulated numbers and the result are pairwise distinct, and a
\* container that shows a complete number leaves that number in the
\* accumulator (newly accepted unless it was already held).
C3_Dedup ==
    /\ \A i, j \in 1..Len(extracted_phones) :
           i # j => extracted_phones[i] # extracted_phones[j]
    /\ \A i, j \in 1..Len(result) : i # j => result[i] # result[j]
    /\ \A k \in InspectedSet :
           ShowsNumber(k) =>
               LET n == clean_phone(Container(k).visible)
               IN  /\ n \in Range(extracted_phones)
                   /\ (\E j \in AcceptedUpTo(k - 1) : accepted[j][2] = n)
                          => AcceptedFrom(k) = {}
                   /\ (\A j \in AcceptedUpTo(k - 1) : accepted[j][2] # n)
                          => AcceptedFrom(k) = {n}

\* A number was accepted, offered again by the next container and dropped,
\* and a different number was then accepted from a third container.
C3_Witness ==
    /\ pcE = "done"
    /\ Len(result) = 2
    /\ \E k \in InspectedSet :
           /\ accepted[1][1] < k /\ k < accepted[2][1]
           /\ \E t \in {e[2] : e \in {x \in normalized : x[1] = k}} :
                  clean_phone(t) = result[1]
           /\ AcceptedFrom(k) = {}

\* C9: a container whose visible text is masked never has that text handed
\* to the normalizer, and a number is accepted from it only after its own
\* show-phone control was clicked; a container whose visible text is not
\* masked has it normalized directly and is never clicked.
C9_Masking ==
    \A k \in InspectedSet :
        /\ ShowsMasked(k) =>
               /\ <<k, Strip(Container(k).visible)>> \notin normalized
               /\ AcceptedFrom(k) # {} => k \in Range(clicks)
               /\ Container(k).button = "ok" => k \in Range(clicks)
        /\ (Container(k).span = "ok" /\ ~HasEllipsis(Container(k).visible)) =>
               /\ <<k, Strip(Container(k).visible)>> \in normalized
               /\ k \notin Range(clicks)

\* A masked text that holds ten digits was not normalized; the number came
\* from the panel, after the click.
C9_Witness ==
    \E k \in InspectedSet :
        /\ ShowsMasked(k)
        /\ Cardinality(DigitPositions(Container(k).visible)) = 10
        /\ k \in Range(clicks)
        /\ AcceptedFrom(k) # {}
        /\ clean_phone(Container(k).visible) \notin AcceptedFrom(k)

\* Container k fails an element lookup (its number span or its show-phone
\* control) or its panel never appears.
LookupFails(k) ==
    \/ Container(k).span = "missing"
    \/ ShowsMasked(k) /\ Container(k).button = "missing"

PanelTimesOut(k) ==
    /\ ShowsMasked(k)
    /\ Container(k).button = "ok"
    /\ Container(k).click = "ok"
    /\ Container(k).panel = "timeout"

\* C10: a container with a failed element lookup or a panel timeout yields
\* nothing; when the page is done the next container was inspected anyway
\* (unless two numbers were already held), and every number accepted from
\* any container is in the result.
C10_Resilience ==
    /\ \A k \in InspectedSet : (LookupFails(k) \/ PanelTimesOut(k)) => AcceptedFrom(k) = {}
    /\ pcE = "done" =>
           /\ \A k \in InspectedSet :
                  (/\ LookupFails(k) \/ PanelTimesOut(k)
                   /\ k < Len(page.containers)
                   /\ Cardinality(AcceptedUpTo(k)) < 2) => (k + 1) \in InspectedSet
           /\ \A i \in 1..Len(accepted) : accepted[i][2] \in Range(result)

\* A number was accepted, the next container failed a lookup, and a later
\* container still added a second number to the result.
C10_Witness ==
    /\ pcE = "done"
    /\ Len(result) = 2
    /\ \E k \in InspectedSet :
           /\ LookupFails(k)
           /\ accepted[1][1] < k /\ k < accepted[2][1]

----------------------------------------------------------------------------
(* Properties of process_excel_file                                        *)

Left == pcR \in {"finally", "done"}

RowsInRange == StartIndex..(EndIndex - 1)

\* C4: a row whose handling fails (a cell that is no string, a periodic
\* save that raises) has the error sentinel with the failure's description
\* in Phone1 and the loop goes on with the next row; once the loop was
\* entered it is left only after the last row, with every row of the range
\* visited.
C4_RowIsolation ==
    /\ last.failure # "none" =>
           /\ df[last.index].Phone1 = ErrorSentinel(last.failure)
           /\ IsErrorSentinel(df[last.index].Phone1)
           /\ index = last.index + 1
    /\ (Left /\ last.index >= 0) =>
           /\ index = EndIndex
           /\ \A i \in RowsInRange : df[i].Phone1 # Blank

\* A row failed, the loop went on, and the run left the loop with every row
\* after the failed one handled.
C4_Witness ==
    /\ pcR = "done"
    /\ outcome = "returned"
    /\ \E i \in RowsInRange :
           /\ IsErrorSentinel(df[i].Phone1)
           /\ i < last.index
           /\ \A j \in (i + 1)..last.index : df[j].Phone1 = PhoneA

\* C5 as stated: between rows fewer than ten rows have been handled without
\* failure since the last completed write, and the final write is made once
\* the last row of the range is done.
C5_Original ==
    /\ pcR = "loop" => unsaved < SaveEvery
    /\ (Left /\ last.index >= 0) => finalWrite # "none"

\* C5 (amended): to_excel is called in the handling of every tenth row that
\* reaches the count of line 311 and of no other row, before the next row
\* begins (blank-URL rows and rows failing before the count are not counted;
\* a row whose periodic save raises is, and the save is not retried); while
\* no periodic save has failed this is every tenth row handled without
\* failure since the last completed write; and once the last row of the
\* range is done the final to_excel call is made whatever the count.
C5_Checkpointing ==
    /\ pcR = "loop" => counted < SaveEvery
    /\ periodic \in {0, SaveEvery}
    /\ (pcR = "loop" /\ saveFailures = 0) => unsaved < SaveEvery
    /\ (Left /\ last.index >= 0) =>
           /\ last.index = EndIndex - 1
           /\ finalWrite \in {"ok", "failed"}

\* The save of the tenth counted row failed, the save of the twentieth was
\* made and completed, with a blank-URL row in between that was not counted.
C5_Witness ==
    /\ pcR = "loop"
    /\ saveFailures = 1
    /\ processed_count = SaveEvery + SaveEvery
    /\ index - StartIndex = processed_count + 1
    /\ counted = 0
    /\ disk = Written(df)

\* C6 as stated: a run that ends by an escaping failure after rows were
\* handled has made one more write on its way out.
C6_Original ==
    (pcR = "done" /\ outcome = "raised" /\ last.index >= 0) => lateWrites > 0

\* C6 (amended): a run that ends by an escaping failure makes no write after
\* the failure: the failure is logged and re-raised, and the file does not
\* hold the rows handled since the last completed write.
C6_NoLateWrite ==
    outcome = "raised" =>
        /\ lateWrites = 0
        /\ unsaved > 0 => disk.data # df

\* The final save failed with rows handled since the last completed write;
\* the run ended and the file does not have them.
C6_Witness ==
    /\ pcR = "done"
    /\ outcome = "raised"
    /\ finalWrite = "failed"
    /\ unsaved > 0
    /\ disk.data # df

\* What lines 308-309 write for the row handled last.
WroteResult ==
    /\ df[last.index].Phone1 = (IF last.phones = <<>> THEN NoPhoneFound ELSE last.phones[1])
    /\ df[last.index].Phone2 = (IF Len(last.phones) > 1 THEN last.phones[2] ELSE Blank)

\* C7 as stated: a row without URL has Phone1 = "No URL" and is not passed
\* to extract_phones; any other handled row has Phone1 = first number or
\* "No phone found" and Phone2 = second number or "".
C7_Original ==
    last.index >= 0 =>
        /\ last.url \in {"nan", "empty"} =>
               df[last.index].Phone1 = NoUrl /\ ~last.called
        /\ last.called => WroteResult

\* C7 (amended): as stated, unless the periodic save made in the row's
\* handling raises: then Phone1 holds the error sentinel instead, and Phone2
\* what line 309 wrote.
C7_RowSentinels ==
    last.index >= 0 =>
        /\ last.url \in {"nan", "empty"} =>
               df[last.index].Phone1 = NoUrl /\ ~last.called
        /\ (last.called /\ last.failure = "none") => WroteResult
        /\ (last.called /\ last.failure # "none") =>
               /\ last.failure = "to_excel"
               /\ SaveDue(processed_count)
               /\ df[last.index].Phone1 = ErrorSentinel("to_excel")
               /\ df[last.index].Phone2 = (IF Len(last.phones) > 1 THEN last.phones[2] ELSE Blank)

\* extract_phones returned nothing for a row and the row holds the sentinel.
C7_Witness ==
    /\ last.index >= 0
    /\ last.called
    /\ last.phones = <<>>
    /\ last.failure = "none"
    /\ df[last.index].Phone1 = NoPhoneFound
    /\ df[last.index].Phone2 = Blank

\* C8: a run creates at most one browser and none is live when it is over.
C8_Session ==
    /\ sessions <= 1
    /\ driver = "live" => sessions = 1
    /\ pcR = "done" => driver # "live"

\* setup_driver failed after the browser was created, and the run ended with
\* the browser quit.
C8_Witness ==
    /\ pcR = "done"
    /\ outcome = "raised"
    /\ last.index < 0
    /\ sessions = 1
    /\ driver = "quit"

\* A browser failure while container c is processed, before anything of it
\* is accepted: the span read or the click raises WebDriverException.
SessionFails(c) ==
    \/ c.span = "stale"
    \/ c.span = "ok" /\ IsMasked(Strip(c.visible)) /\ c.button = "ok" /\ c.click = "fails"

\* Container k of the page is reached with a number already accepted.
ReachedHolding(pg, k) ==
    /\ k \in 2..Len(pg.containers)
    /\ Len(extract_phones([pg EXCEPT !.containers = SubSeq(pg.containers, 1, k - 1)]))
           \in 1..(PhoneCap - 1)

\* The row's page hit a browser failure: in the navigation, or in a container
\* reached after a number was accepted.
HitSessionFailure(pg) ==
    \/ pg.nav = "fails"
    \/ /\ pg.find = "ok"
       /\ \E k \in 1..Len(pg.containers) :
              ReachedHolding(pg, k) /\ SessionFails(pg.containers[k])

\* The page without the containers that hit a browser failure.
Spared(pg) ==
    [pg EXCEPT !.containers = SelectSeq(pg.containers, LAMBDA c : ~SessionFails(c))]

\* The loop is at the row after the last one handled, or was left after the
\* last row of the range.
RunGoesOn ==
    /\ index = last.index + 1
    /\ pcR = "loop" \/ (Left /\ index = EndIndex)

\* C11 as stated: any browser failure of a row's extraction, in the
\* navigation or in a container reached after a number was accepted, makes
\* extract_phones return the empty result, and the run goes on.
C11_Original ==
    (last.called /\ HitSessionFailure(last.page)) =>
        /\ last.phones = <<>>
        /\ RunGoesOn

\* C11: a browser failure in the navigation makes extract_phones return the
\* empty result and the row reads "No phone found"; a browser failure inside
\* a container ends that container only, so the row's result is what the
\* page yields without the failed containers, numbers already accepted
\* included; either way the run goes on with the next row.
C11_FailureScope ==
    last.called =>
        /\ last.page.nav = "fails" =>
               /\ last.phones = <<>>
               /\ last.failure = "none" => df[last.index].Phone1 = NoPhoneFound
        /\ last.page.nav = "ok" =>
               /\ last.phones = extract_phones(Spared(last.page))
               /\ HitSessionFailure(last.page) => last.phones # <<>>
        /\ last.failure = "none" =>
               /\ df[last.index].Phone1 = Phone1Of(last.phones)
               /\ df[last.index].Phone2 = Phone2Of(last.phones)
        /\ RunGoesOn

\* A row's second container lost the browser after a number was accepted,
\* the row got that number and the one of the container after it, and the
\* loop stands at the next row of the range.
C11_Witness ==
    /\ last.called
    /\ last.page.nav = "ok"
    /\ HitSessionFailure(last.page)
    /\ Len(last.phones) = 2
    /\ df[last.index].Phone1 = PhoneA
    /\ df[last.index].Phone2 = PhoneB
    /\ pcR = "loop"
    /\ index = last.index + 1
    /\ index < EndIndex

====
